---- MODULE Spec2Model ----
(***************************************************************************)
(* The lowering context `Cx` of librustc_mir/hair/cx/mod.rs: construction  *)
(* (constness classification, dependency read, overflow-check policy) and  *)
(* the facade operations the HAIR converters call on a constructed `Cx`.   *)
(*                                                                         *)
(* One behaviour is the lowering of one compilation unit under one         *)
(* session: `Cx::new` runs once, then facade operations run in any order.  *)
(* `ret` holds the call that has just returned until the caller goes on.   *)
(* `bug!()` is a panic that unwinds out of the lowering: once an operation *)
(* ends in it, nothing else runs.                                          *)
(***************************************************************************)
EXTENDS Integers, Sequences, FiniteSets, TLC

VARIABLES
    sess,       \* tcx.sess: opts.debugging_opts.force_overflow_checks,
                \* opts.debug_assertions, target.uint_type
    infcx,      \* the inference context handed to Cx::new: parameter_environment
    dep_graph,  \* tcx.dep_graph: the reads registered so far
    cx,         \* the constructed Cx (constness, check_overflow), or NoCx
    ret         \* the last call: operation, arguments/collaborator answers,
                \* outcome (value returned, or bug!), collaborator calls made

vars == <<sess, infcx, dep_graph, cx, ret>>

----------------------------------------------------------------------------
(* Bounds of the model                                                     *)

MaxNodeId == 2      \* node ids of compilation units: 1..MaxNodeId
MaxAttrs == 2       \* attributes on a unit
MaxItems == 2       \* items of a trait
MaxVariants == 2    \* variants of an ADT
MaxFields == 3      \* fields of a variant

NodeIds == 1..MaxNodeId

\* Sequences over S of length at most n.
SeqsUpTo(S, n) == UNION {[1..k -> S] : k \in 0..n}

----------------------------------------------------------------------------
(* Outcomes of a call                                                      *)

NoCx == [none |-> TRUE]

\* A call that returned `val`, having made the collaborator calls `calls`.
Ok(val, calls) == [kind |-> "ok", val |-> val, calls |-> calls]
\* A call that ended in bug!(msg): a panic, nothing is returned.
Bug(msg, calls) == [kind |-> "bug", val |-> msg, calls |-> calls]
\* A call a collaborator's failure `err` unwound through.
Failed(err, calls) == [kind |-> err.kind, val |-> err.val, calls |-> calls]

----------------------------------------------------------------------------
(* Cx::new                                                                 *)

Constness == {"Const", "NotConst"}

\* MirSource: Const(id) | Static(id, _) | Fn(id) | Promoted(id, _)
MirSourceKinds == {"Const", "Static", "Fn", "Promoted"}
MirSources == [kind : MirSourceKinds, id : NodeIds]

\* What tcx.map.get(id) can answer for a Fn source: a free fn or a method with
\* its declared constness, a closure, or a node that is not fn-like at all.
Nodes ==
    [node : {"ItemFn", "Method"}, constness : Constness]
        \cup {[node |-> "Closure"], [node |-> "Other"]}
NotRead == [node |-> "NotRead"]

AttrNames == {"rustc_inherit_overflow_checks", "inline"}
AttrLists == SeqsUpTo(AttrNames, MaxAttrs)

\* FnLikeNode::from_node(node).map(|f| f.kind())
fn_kind(node) ==
    IF node.node = "Other" THEN [some |-> FALSE]
    ELSE [some |-> TRUE, kind |-> node]

\* The match without its Method arm: a method falls to `_ => NotConst`.
classify_no_method_arm(src, node) ==
    CASE src.kind \in {"Const", "Static"} -> Ok("Const", <<>>)
      [] src.kind = "Fn" ->
            LET k == fn_kind(node) IN
            IF k.some /\ k.kind.node = "ItemFn" THEN Ok(k.kind.constness, <<>>)
            ELSE Ok("NotConst", <<>>)
      [] src.kind = "Promoted" -> Bug("promoted", <<>>)

\* let constness = match src { ... }
classify(src, node) ==
    CASE src.kind \in {"Const", "Static"} -> Ok("Const", <<>>)
      [] src.kind = "Fn" ->
            LET k == fn_kind(node) IN
            IF k.some /\ k.kind.node = "ItemFn" THEN Ok(k.kind.constness, <<>>)
            ELSE IF k.some /\ k.kind.node = "Method" THEN Ok(k.kind.constness, <<>>)
            ELSE Ok("NotConst", <<>>)
      [] src.kind = "Promoted" -> Bug("promoted", <<>>)

\* infcx.tcx.map.local_def_id(src_node_id)
local_def_id(id) == [krate |-> "LOCAL", node |-> id]

\* DepNode::TypeckItemBody(src_def_id)
TypeckItemBody(def_id) == [dep |-> "TypeckItemBody", def_id |-> def_id]

\* attrs.iter().any(|item| item.check_name("rustc_inherit_overflow_checks"))
has_inherit_marker(attrs) ==
    \E i \in DOMAIN attrs : attrs[i] = "rustc_inherit_overflow_checks"

\* force_overflow_checks.unwrap_or(debug_assertions)
forced_or_debug(s) ==
    IF s.force_overflow_checks.some THEN s.force_overflow_checks.val
    ELSE s.debug_assertions

\* The policy reading debug_assertions alone, force_overflow_checks ignored.
derive_check_overflow_no_force(attrs, s, constness) ==
    \/ has_inherit_marker(attrs)
    \/ s.debug_assertions
    \/ constness = "Const"

\* The policy without its last line: constness is not consulted.
derive_check_overflow_no_const(attrs, s, constness) ==
    \/ has_inherit_marker(attrs)
    \/ forced_or_debug(s)

\* let mut check_overflow = ...; check_overflow |= ...; check_overflow |= ...
derive_check_overflow(attrs, s, constness) ==
    \/ has_inherit_marker(attrs)
    \/ forced_or_debug(s)
    \/ constness = "Const"

\* Cx { tcx: infcx.tcx, infcx: infcx, constness, check_overflow }
MkCx(ic, constness, check_overflow) ==
    [tcx |-> "tcx", infcx |-> ic,
     constness |-> constness, check_overflow |-> check_overflow]

\* Cx::new registering its dependency read before it classifies the source.
Cx_new_read_first(ic, src, node, attrs, s) ==
    LET read == TypeckItemBody(local_def_id(src.id))
        c == classify(src, node) IN
    IF c.kind # "ok" THEN Bug(c.val, <<read>>)
    ELSE Ok(MkCx(ic, c.val, derive_check_overflow(attrs, s, c.val)), <<read>>)

\* Cx::new(infcx, src), with the answers of tcx.map.get(id) and
\* tcx.map.attrs(id). The dependency read is registered after the
\* classification and before the attributes are looked at.
Cx_new(ic, src, node, attrs, s) ==
    LET c == classify(src, node) IN
    IF c.kind # "ok" THEN c
    ELSE LET read == TypeckItemBody(local_def_id(src.id)) IN
         Ok(MkCx(ic, c.val, derive_check_overflow(attrs, s, c.val)), <<read>>)

----------------------------------------------------------------------------
(* Types and literals                                                      *)

\* Literal::Value { value } and Literal::Item { def_id, substs }
Value(value) == [lit |-> "Value", value |-> value]
Item(def_id, substs) == [lit |-> "Item", def_id |-> def_id, substs |-> substs]

\* ConstVal::Integral(ConstInt::Usize(val)), ConstVal::Str, ConstVal::Bool
IntegralUsize(val) == [cv |-> "Integral", int |-> [ci |-> "Usize", val |-> val]]
Str(s) == [cv |-> "Str", val |-> s]
Bool(b) == [cv |-> "Bool", val |-> b]

\* self.tcx.types.usize, self.tcx.types.bool, self.tcx.mk_nil()
usize_ty(self) == Ok([ty |-> "usize"], <<>>)
bool_ty(self) == Ok([ty |-> "bool"], <<>>)
unit_ty(self) == Ok([ty |-> "tuple", elems |-> <<>>], <<>>)

\* A u64 is four 16-bit limbs, least significant first.
LimbMax == 2^16 - 1
LimbSamples == {0, 1, LimbMax}
U64s == [1..4 -> LimbSamples]
UintTys == {"U16", "U32", "U64"}

\* Limbs of a usize on the target.
limbs_of(uint_type) ==
    CASE uint_type = "U16" -> 1
      [] uint_type = "U32" -> 2
      [] uint_type = "U64" -> 4

\* `i as u16`, `i as u32`: the low limbs.
truncate(i, n) == SubSeq(i, 1, n)
\* `x as u64`: zero extension.
as_u64(v) == v \o [k \in 1..(4 - Len(v)) |-> 0]

\* ConstUsize::new(i, target_uint_ty): the value stored at the target's
\* width when it fits, an error when it does not.
ConstUsize_new(i, uint_type) ==
    LET t == truncate(i, limbs_of(uint_type)) IN
    IF as_u64(t) = i
    THEN [ok |-> TRUE, val |-> [us |-> uint_type, v |-> t]]
    ELSE [ok |-> FALSE, err |-> "ULitOutOfRange"]

\* usize_literal storing `value as usize` whether or not it fits.
usize_literal_truncating(self, value, s) ==
    Ok(Value(IntegralUsize(
        [us |-> s.uint_type, v |-> truncate(value, limbs_of(s.uint_type))])), <<>>)

usize_literal(self, value, s) ==
    LET r == ConstUsize_new(value, s.uint_type) IN
    IF r.ok THEN Ok(Value(IntegralUsize(r.val)), <<>>)
    ELSE Bug("usize literal out of range for target", <<>>)

InternedStrings == {"a", "b"}

str_literal(self, value) == Ok(Value(Str(value)), <<>>)
true_literal(self) == Ok(Value(Bool(TRUE)), <<>>)
false_literal(self) == Ok(Value(Bool(FALSE)), <<>>)

\* Constant expressions handed to the evaluator.
Exprs == {"true", "one_plus_one", "div_by_zero", "non_const_path"}

\* const_eval::eval_const_expr(tcx, e): the constant `e` evaluates to, or a
\* user-diagnosable failure that leaves the call without a value.
eval_const_expr(e) ==
    CASE e = "true" -> [kind |-> "ok", val |-> Bool(TRUE)]
      [] e = "one_plus_one" ->
            [kind |-> "ok",
             val |-> [cv |-> "Integral", int |-> [ci |-> "Infer", val |-> 2]]]
      [] e = "div_by_zero" -> [kind |-> "user_error", val |-> "DivideByZero"]
      [] e = "non_const_path" -> [kind |-> "user_error", val |-> "NonConstPath"]

\* const_eval_literal turning the evaluator's failure into a bug!.
const_eval_literal_bug_on_failure(self, e) ==
    LET r == eval_const_expr(e)
        called == <<[call |-> "eval_const_expr", args |-> <<e>>]>> IN
    IF r.kind = "ok" THEN Ok(Value(r.val), called)
    ELSE Bug("constant evaluation failed", called)

\* Literal::Value { value: eval_const_expr(..) }: the struct is built from
\* the value the evaluator returns; nothing catches its failure.
const_eval_literal(self, e) ==
    LET r == eval_const_expr(e)
        called == <<[call |-> "eval_const_expr", args |-> <<e>>]>> IN
    IF r.kind = "ok" THEN Ok(Value(r.val), called)
    ELSE Failed(r, called)

----------------------------------------------------------------------------
(* trait_method                                                            *)

\* token::intern: a string's index in the interner's table.
InternTable == <<"m", "n">>
MethodNames == {InternTable[i] : i \in DOMAIN InternTable}
intern(str) == CHOOSE i \in DOMAIN InternTable : InternTable[i] = str

\* ty::ImplOrTraitItem: MethodTraitItem | ConstTraitItem | TypeTraitItem
ItemKinds == {"MethodTraitItem", "ConstTraitItem", "TypeTraitItem"}

\* The def id of the i-th item of the trait.
item_def_id(i) == [krate |-> "LOCAL", node |-> MaxNodeId + i]

\* What tcx.trait_items(trait_def_id) can answer: items in declaration order,
\* each with its own def id.
TraitItemLists ==
    UNION {
        {[i \in 1..n |->
            [kind |-> ks[i], name |-> ns[i], def_id |-> item_def_id(i)]] :
         ks \in [1..n -> ItemKinds], ns \in [1..n -> DOMAIN InternTable]}
        : n \in 0..MaxItems}

\* Types: a primitive, a type with a destructor, a type parameter, and an
\* unresolved inference variable.
Tys == {"u32", "String", "T", "_"}
SelfTys == {"u32", "String"}
ParamLists == {<<>>, <<"u32">>}

\* Substs::new_trait(params, vec![], self_ty)
new_trait(params, regions, self_ty) ==
    [types |-> params, regions |-> regions, self_ty |-> self_ty]

\* self.tcx.lookup_item_type(def_id).ty.subst(self.tcx, &substs)
subst_item_type(def_id, substs) ==
    [ty |-> "FnDef", def_id |-> def_id, substs |-> substs]

\* The `for trait_item in ...` loop from item i on, and the bug! after it.
RECURSIVE scan_trait_items(_, _, _, _)
scan_trait_items(items, i, method_name, substs) ==
    IF i > Len(items)
    THEN Bug("found no method", <<>>)
    ELSE IF items[i].kind = "MethodTraitItem" /\ items[i].name = method_name
    THEN Ok(<<subst_item_type(items[i].def_id, substs),
              Item(items[i].def_id, substs)>>, <<>>)
    ELSE scan_trait_items(items, i + 1, method_name, substs)

\* The loop comparing names only: a constant or associated type named like
\* the method is taken for it.
RECURSIVE scan_any_kind(_, _, _, _)
scan_any_kind(items, i, method_name, substs) ==
    IF i > Len(items)
    THEN Bug("found no method", <<>>)
    ELSE IF items[i].name = method_name
    THEN Ok(<<subst_item_type(items[i].def_id, substs),
              Item(items[i].def_id, substs)>>, <<>>)
    ELSE scan_any_kind(items, i + 1, method_name, substs)

trait_method_any_kind(self, items, method_name, self_ty, params) ==
    scan_any_kind(items, 1, intern(method_name),
                  new_trait(params, <<>>, self_ty))

\* trait_method(trait_def_id, method_name, self_ty, params), with `items` the
\* answer of tcx.trait_items(trait_def_id).
trait_method(self, items, method_name, self_ty, params) ==
    scan_trait_items(items, 1, intern(method_name),
                     new_trait(params, <<>>, self_ty))

----------------------------------------------------------------------------
(* ADT introspection                                                       *)

\* ty::AdtDef: variants, each with its fields.
VariantDefs == [fields : SeqsUpTo({"fld"}, MaxFields)]
AdtDefs == [variants : SeqsUpTo(VariantDefs, MaxVariants)]

\* Field::new(i)
Field_new(i) == [field |-> i]

num_variants(self, adt_def) == Ok(Len(adt_def.variants), <<>>)

\* all_fields counting from one: (1..fields.len() + 1).
all_fields_one_based(self, adt_def, variant_index) ==
    IF variant_index >= Len(adt_def.variants)
    THEN [kind |-> "panic", val |-> "index out of bounds", calls |-> <<>>]
    ELSE LET n == Len(adt_def.variants[variant_index + 1].fields) IN
         Ok([k \in 1..n |-> Field_new(k)], <<>>)

\* (0..fields.len()).map(Field::new).collect(); indexing `variants` out of
\* bounds panics. Rust indices are zero-based.
all_fields(self, adt_def, variant_index) ==
    IF variant_index >= Len(adt_def.variants)
    THEN [kind |-> "panic", val |-> "index out of bounds", calls |-> <<>>]
    ELSE LET n == Len(adt_def.variants[variant_index + 1].fields) IN
         Ok([k \in 1..n |-> Field_new(k - 1)], <<>>)

----------------------------------------------------------------------------
(* needs_drop                                                              *)

\* infcx.parameter_environment: the bounds in scope.
ParamEnvs == {[caller_bounds |-> {}], [caller_bounds |-> {"T: Copy"}]}

\* tcx.lift_to_global(&ty): None for a type with inference types/regions.
lift_to_global(ty) ==
    IF ty = "_" THEN [some |-> FALSE] ELSE [some |-> TRUE, val |-> ty]

\* tcx.type_needs_drop_given_env(ty, env)
type_needs_drop_given_env(ty, env) ==
    \/ ty = "String"
    \/ ty = "T" /\ "T: Copy" \notin env.caller_bounds

\* needs_drop asking the query about the type as given, lifted or not.
needs_drop_unlifted(self, ty) ==
    LET env == self.infcx.parameter_environment IN
    Ok(type_needs_drop_given_env(ty, env),
       <<[call |-> "type_needs_drop_given_env", args |-> <<ty, env>>]>>)

needs_drop(self, ty) ==
    LET lifted == lift_to_global(ty)
        lift == [call |-> "lift_to_global", args |-> <<ty>>] IN
    IF ~lifted.some
    THEN Bug("needs_drop got type with inference types/regions", <<lift>>)
    ELSE LET env == self.infcx.parameter_environment IN
         Ok(type_needs_drop_given_env(lifted.val, env),
            <<lift, [call |-> "type_needs_drop_given_env",
                     args |-> <<lifted.val, env>>]>>)

\* self.tcx
tcx(self) == Ok(self.tcx, <<>>)

\* self.check_overflow
check_overflow(self) == Ok(self.check_overflow, <<>>)

----------------------------------------------------------------------------
(* The state machine                                                       *)

Call(op, args, out) ==
    [op |-> op, args |-> args,
     kind |-> out.kind, val |-> out.val, calls |-> out.calls]

\* The caller holds no result of a call.
NoCall ==
    [op |-> "none", args |-> <<>>, kind |-> "none", val |-> <<>>, calls |-> <<>>]

Sessions ==
    [force_overflow_checks :
        {[some |-> FALSE], [some |-> TRUE, val |-> TRUE],
         [some |-> TRUE, val |-> FALSE]},
     debug_assertions : BOOLEAN,
     uint_type : UintTys]

Init ==
    /\ sess \in Sessions
    /\ infcx \in [parameter_environment : ParamEnvs]
    /\ dep_graph = <<>>
    /\ cx = NoCx
    /\ ret = NoCall

\* No call is outstanding: the caller is between two calls.
Idle == ret.kind = "none"

\* bug!() and an out-of-bounds index panic: the lowering is over.
Unwound == ret.kind \in {"bug", "panic"}

\* Cx::new for the unit being lowered.
New ==
    /\ cx = NoCx
    /\ Idle
    /\ \E src \in MirSources, attrs \in AttrLists :
       \E node \in (IF src.kind = "Fn" THEN Nodes ELSE {NotRead}) :
          LET out == Cx_new(infcx, src, node, attrs, sess) IN
          /\ ret' = Call("new", [src |-> src, node |-> node, attrs |-> attrs], out)
          /\ dep_graph' = dep_graph \o out.calls
          /\ cx' = IF out.kind = "ok" THEN out.val ELSE NoCx
    /\ UNCHANGED <<sess, infcx>>

Ready == cx # NoCx /\ Idle

\* A facade operation that writes through its `&mut self`.
Facade_clobbering(op, args, out) ==
    /\ ret' = Call(op, args, out)
    /\ cx' = [cx EXCEPT !.check_overflow = FALSE]
    /\ UNCHANGED <<sess, infcx, dep_graph>>

\* A facade operation `op` called with `args`, ending in `out`: every one
\* of them leaves the context, the session and the dependency graph alone.
Facade(op, args, out) ==
    /\ ret' = Call(op, args, out)
    /\ UNCHANGED <<sess, infcx, dep_graph, cx>>

UsizeTy == Ready /\ Facade("usize_ty", <<>>, usize_ty(cx))
BoolTy == Ready /\ Facade("bool_ty", <<>>, bool_ty(cx))
UnitTy == Ready /\ Facade("unit_ty", <<>>, unit_ty(cx))

UsizeLiteral ==
    /\ Ready
    /\ \E value \in U64s :
          Facade("usize_literal", [value |-> value], usize_literal(cx, value, sess))

StrLiteral ==
    /\ Ready
    /\ \E value \in InternedStrings :
          Facade("str_literal", [value |-> value], str_literal(cx, value))

TrueLiteral == Ready /\ Facade("true_literal", <<>>, true_literal(cx))
FalseLiteral == Ready /\ Facade("false_literal", <<>>, false_literal(cx))

ConstEvalLiteral ==
    /\ Ready
    /\ \E e \in Exprs :
          Facade("const_eval_literal", [e |-> e], const_eval_literal(cx, e))

TraitMethod ==
    /\ Ready
    /\ \E items \in TraitItemLists, method_name \in MethodNames,
          self_ty \in SelfTys, params \in ParamLists :
          Facade("trait_method",
                 [items |-> items, method_name |-> method_name,
                  self_ty |-> self_ty, params |-> params],
                 trait_method(cx, items, method_name, self_ty, params))

NumVariants ==
    /\ Ready
    /\ \E adt_def \in AdtDefs :
          Facade("num_variants", [adt_def |-> adt_def], num_variants(cx, adt_def))

AllFields ==
    /\ Ready
    /\ \E adt_def \in AdtDefs, variant_index \in 0..MaxVariants :
          Facade("all_fields",
                 [adt_def |-> adt_def, variant_index |-> variant_index],
                 all_fields(cx, adt_def, variant_index))

NeedsDrop ==
    /\ Ready
    /\ \E ty \in Tys : Facade("needs_drop", [ty |-> ty], needs_drop(cx, ty))

Tcx == Ready /\ Facade("tcx", <<>>, tcx(cx))
CheckOverflow == Ready /\ Facade("check_overflow", <<>>, check_overflow(cx))

\* The caller (a converter under Mirror::make_mirror) takes what the call
\* returned, or the evaluator's error, and goes on; a panic is not resumed.
Resume ==
    /\ ~Idle
    /\ ~Unwound
    /\ ret' = NoCall
    /\ UNCHANGED <<sess, infcx, dep_graph, cx>>

Next ==
    \/ New
    \/ Resume
    \/ UsizeTy \/ BoolTy \/ UnitTy
    \/ UsizeLiteral \/ StrLiteral \/ TrueLiteral \/ FalseLiteral
    \/ ConstEvalLiteral
    \/ TraitMethod
    \/ NumVariants \/ AllFields
    \/ NeedsDrop
    \/ Tcx \/ CheckOverflow

Spec == Init /\ [][Next]_vars

----------------------------------------------------------------------------
(* Properties                                                              *)

\* Cx::new has just returned a context.
Constructed == ret.op = "new" /\ ret.kind = "ok"

\* C1: Cx::new classifies a static or constant unit Const; a function unit
\* resolving to a free fn or to a method gets that item's declared
\* constness; a function unit resolving to neither is NotConst.
C1_Classification ==
    ret.op = "new" =>
        LET src == ret.args.src
            node == ret.args.node IN
        /\ src.kind \in {"Const", "Static"} =>
                Constructed /\ cx.constness = "Const"
        /\ src.kind = "Fn" /\ node.node \in {"ItemFn", "Method"} =>
                Constructed /\ cx.constness = node.constness
        /\ src.kind = "Fn" /\ node.node \in {"Closure", "Other"} =>
                Constructed /\ cx.constness = "NotConst"

C1_Witness ==
    /\ Constructed
    /\ ret.args.src.kind = "Fn"
    /\ ret.args.node = [node |-> "Method", constness |-> "Const"]
    /\ cx.constness = "Const"

\* C2: check_overflow() of the constructed context is
\* has_inherit_marker OR (force_overflow_checks if set, else
\* debug_assertions) OR (constness == Const), and nothing else.
C2_OverflowPolicy ==
    Constructed =>
        LET marker == \E i \in 1..Len(ret.args.attrs) :
                        ret.args.attrs[i] = "rustc_inherit_overflow_checks"
            forced == IF sess.force_overflow_checks = [some |-> FALSE]
                      THEN sess.debug_assertions
                      ELSE sess.force_overflow_checks.val
        IN check_overflow(cx).val = (marker \/ forced \/ cx.constness = "Const")

\* Forced off wins over debug assertions: the flag is off.
C2_Witness ==
    /\ Constructed
    /\ sess.force_overflow_checks = [some |-> TRUE, val |-> FALSE]
    /\ sess.debug_assertions
    /\ ret.args.attrs = <<"inline">>
    /\ cx.constness = "NotConst"
    /\ check_overflow(cx).val = FALSE

\* C3: a context classified Const has check_overflow() true, whatever the
\* attributes and the session's settings.
C3_ConstChecksOverflow ==
    (cx # NoCx /\ cx.constness = "Const") => check_overflow(cx).val = TRUE

\* A const fn with no marker, overflow checks forced off, no debug assertions.
C3_Witness ==
    /\ Constructed
    /\ ret.args.src.kind = "Fn"
    /\ ret.args.node = [node |-> "ItemFn", constness |-> "Const"]
    /\ ret.args.attrs = <<>>
    /\ sess.force_overflow_checks = [some |-> TRUE, val |-> FALSE]
    /\ ~sess.debug_assertions
    /\ check_overflow(cx).val = TRUE

\* The u64 an integral usize literal holds.
literal_as_u64(lit) == as_u64(lit.value.int.val.v)

\* `value` is at most the target's usize::MAX: no limb above the width is set.
fits_target(value, uint_type) ==
    \A k \in 1..4 :
        value[k] # 0 =>
            \/ k = 1
            \/ k = 2 /\ uint_type \in {"U32", "U64"}
            \/ uint_type = "U64"

\* C4: usize_literal(v) yields a usize literal that decodes to v when v fits
\* the target's pointer width, and is a bug! with no literal otherwise.
C4_UsizeRoundTrip ==
    ret.op = "usize_literal" =>
        IF fits_target(ret.args.value, sess.uint_type)
        THEN /\ ret.kind = "ok"
             /\ ret.val.lit = "Value"
             /\ ret.val.value.cv = "Integral"
             /\ ret.val.value.int.ci = "Usize"
             /\ literal_as_u64(ret.val) = ret.args.value
        ELSE ret.kind = "bug"

\* 2^16 + 1 on a 16-bit target: out of range, and not the literal 1.
C4_Witness ==
    /\ ret.op = "usize_literal"
    /\ sess.uint_type = "U16"
    /\ ret.args.value = <<1, 1, 0, 0>>
    /\ ret.kind = "bug"

\* The first item of `items` that is a method named `name`, 0 if none.
first_method(items, name) ==
    LET hits == {i \in 1..Len(items) :
                    /\ items[i].kind = "MethodTraitItem"
                    /\ InternTable[items[i].name] = name} IN
    IF hits = {} THEN 0 ELSE CHOOSE i \in hits : \A j \in hits : i <= j

\* C5: trait_method returns the Item literal of the first method item with
\* the requested name, with the substitution built from params and self_ty;
\* constants and associated types are skipped; no such method is a bug!.
C5_TraitMethod ==
    ret.op = "trait_method" =>
        LET a == ret.args
            i == first_method(a.items, a.method_name) IN
        IF i = 0 THEN ret.kind = "bug"
        ELSE /\ ret.kind = "ok"
             /\ ret.val[2] =
                    [lit |-> "Item", def_id |-> a.items[i].def_id,
                     substs |-> [types |-> a.params, regions |-> <<>>,
                                 self_ty |-> a.self_ty]]

\* A constant named `m` declared before the method `m` is skipped.
C5_Witness ==
    /\ ret.op = "trait_method"
    /\ ret.args.method_name = "m"
    /\ Len(ret.args.items) = 2
    /\ ret.args.items[1].kind = "ConstTraitItem"
    /\ InternTable[ret.args.items[1].name] = "m"
    /\ ret.kind = "ok"
    /\ ret.val[2].def_id = ret.args.items[2].def_id

\* C6: num_variants is the number of variants, and all_fields of a valid
\* variant index is the fields 0, 1, ..., fieldCount - 1 in ascending order.
C6_AdtShape ==
    /\ ret.op = "num_variants" =>
            ret.kind = "ok" /\ ret.val = Len(ret.args.adt_def.variants)
    /\ (ret.op = "all_fields"
            /\ ret.args.variant_index < Len(ret.args.adt_def.variants)) =>
            LET v == ret.args.adt_def.variants[ret.args.variant_index + 1] IN
            /\ ret.kind = "ok"
            /\ Len(ret.val) = Len(v.fields)
            /\ \A k \in 1..Len(ret.val) : ret.val[k] = [field |-> k - 1]

\* The second variant of two, with two fields or more.
C6_Witness ==
    /\ ret.op = "all_fields"
    /\ Len(ret.args.adt_def.variants) = 2
    /\ ret.args.variant_index = 1
    /\ ret.kind = "ok"
    /\ Len(ret.val) >= 2

\* C7: const_eval_literal wraps the evaluator's result as a value literal,
\* and the evaluator's failure reaches the caller as it is: no literal, no
\* bug!.
C7_ConstEval ==
    ret.op = "const_eval_literal" =>
        LET r == eval_const_expr(ret.args.e) IN
        IF r.kind = "ok"
        THEN ret.kind = "ok" /\ ret.val = [lit |-> "Value", value |-> r.val]
        ELSE ret.kind = "user_error" /\ ret.val = r.val

C7_Witness ==
    /\ ret.op = "const_eval_literal"
    /\ ret.args.e = "div_by_zero"
    /\ ret.kind = "user_error"
    /\ ret.val = "DivideByZero"

\* The last call consulted the drop-necessity query.
asked_needs_drop ==
    \E k \in 1..Len(ret.calls) : ret.calls[k].call = "type_needs_drop_given_env"

\* C8: needs_drop on a type with inference types/regions is a bug! raised
\* before the drop-necessity query is asked; on a resolved type it is the
\* query's answer under the context's parameter environment.
C8_NeedsDrop ==
    ret.op = "needs_drop" =>
        IF ret.args.ty = "_"
        THEN ret.kind = "bug" /\ ~asked_needs_drop
        ELSE /\ ret.kind = "ok"
             /\ ret.val = type_needs_drop_given_env(
                              ret.args.ty, infcx.parameter_environment)
             /\ ret.calls[Len(ret.calls)] =
                    [call |-> "type_needs_drop_given_env",
                     args |-> <<ret.args.ty, infcx.parameter_environment>>]

C8_Witness ==
    /\ ret.op = "needs_drop"
    /\ ret.args.ty = "_"
    /\ ret.kind = "bug"
    /\ ~asked_needs_drop

\* C9: Cx::new on a promoted unit is a bug! during classification: there is
\* no context, no overflow flag, and nothing is added to the dependency
\* graph.
C9_PromotedAborts ==
    (ret.op = "new" /\ ret.args.src.kind = "Promoted") =>
        /\ ret.kind = "bug"
        /\ cx = NoCx
        /\ dep_graph = <<>>
        /\ ~ENABLED Next

C9_Witness ==
    /\ ret.op = "new"
    /\ ret.args.src.kind = "Promoted"
    /\ ret.args.attrs = <<"rustc_inherit_overflow_checks">>
    /\ ret.kind = "bug"

\* C10: once a context exists, no step changes it or takes it away, and
\* check_overflow() returns the flag it was constructed with.
C10_Frozen ==
    [][/\ cx # NoCx => cx' = cx
       /\ ret'.op = "check_overflow" =>
            ret'.kind = "ok" /\ ret'.val = cx.check_overflow]_vars

\* check_overflow() answers after an earlier facade call ended and the
\* caller went on.
C10_Witness ==
    /\ ret.op = "check_overflow"
    /\ ret.val = cx.check_overflow
    /\ ~cx.check_overflow
    /\ Len(dep_graph) = 1

====
